---------------------------- MODULE Spec2Model ----------------------------
(* A model of json_writer (src/json_writer.h): the streaming JSON encoder's *)
(* state machine (nesting level, separator status, fixed indent width), the *)
(* bytes it writes to its sink, and the string escaping routine.            *)
(* Bytes are integers 0..255; the sink is the sequence of bytes written.    *)
EXTENDS Integers, Sequences, FiniteSets, TLC

VARIABLES
    sout_,        \* bytes written to the sink so far
    indent_,      \* const int indent_
    level_,       \* int level_
    sep_status_,  \* SepStatus sep_status_: "none", "first" or "next"
    sink,         \* the stream behind sout_: room (bytes it still accepts, -1 for
                  \* no limit), failed (its state is not good), throws (it was
                  \* set up to throw on failure)
    log           \* history: one record per call, with the bytes that call wrote

vars == <<sout_, indent_, level_, sep_status_, sink, log>>

-----------------------------------------------------------------------------
(* Bounds of the model *)

MaxCalls == 4      \* calls per behaviour, arbitrary call sequences
MaxWFCalls == 5    \* calls per behaviour, well-formed call sequences
MaxDocCalls == 6   \* calls per behaviour, well-formed compact documents
MaxObjCalls == 7   \* calls per behaviour, nested-object call sequences
MaxStrLen == 3     \* length of the strings drawn from StrBytes

IndentArgs == {0, 1, 2}   \* indent widths given to the constructor

-----------------------------------------------------------------------------
(* Character constants *)

cObjStart == 123
cObjEnd == 125
cArrStart == 91
cArrEnd == 93
sNameSep == <<58, 32>>
cValueSep == 44
cQuote == 34
cBackslash == 92
sUnicodeEsc == <<92, 117, 48, 48>>
sHex == <<48, 49, 50, 51, 52, 53, 54, 55, 56, 57, 97, 98, 99, 100, 101, 102>>

SepStatus == {"none", "first", "next"}

num_to_hex(n) == sHex[n + 1]

-----------------------------------------------------------------------------
(* Generic helpers *)

RECURSIVE Flatten(_)
Flatten(ss) == IF ss = <<>> THEN <<>> ELSE Head(ss) \o Flatten(Tail(ss))

RECURSIVE Count(_, _)
Count(s, b) ==
    IF s = <<>> THEN 0
    ELSE (IF Head(s) = b THEN 1 ELSE 0) + Count(Tail(s), b)

RECURSIVE SeqsUpTo(_, _)
SeqsUpTo(S, n) ==
    IF n = 0 THEN {<<>>}
    ELSE LET shorter == SeqsUpTo(S, n - 1)
         IN  shorter \cup {Append(s, b) : s \in shorter, b \in S}

-----------------------------------------------------------------------------
(* Stream insertions *)

\* sout_ << std::setw(n) << "": n fill characters (spaces), none when n <= 0
setw_empty(n) == [i \in 1..n |-> 32]

\* sout_ << n for an int: decimal digits, '-' only when negative
RECURSIVE DecDigits(_)
DecDigits(n) ==
    IF n < 10 THEN <<48 + n>>
    ELSE Append(DecDigits(n \div 10), 48 + (n % 10))

int_text(n) == IF n < 0 THEN <<45>> \o DecDigits(0 - n) ELSE DecDigits(n)

\* sout_ << n for the integral type T of the template: a character type is
\* inserted as the character with that code, a bool as 1 or 0 (no boolalpha),
\* every other integral type as decimal text
CharTypes == {"char", "signed char", "unsigned char"}
IntegralTypes == CharTypes \cup {"bool", "int"}

integral_text(T, n) ==
    IF T \in CharTypes THEN <<n % 256>>
    ELSE IF T = "bool" THEN DecDigits(IF n # 0 THEN 1 ELSE 0)
    ELSE int_text(n)

bool_text(b) == IF b THEN <<116, 114, 117, 101>> ELSE <<102, 97, 108, 115, 101>>

null_text == <<110, 117, 108, 108>>

-----------------------------------------------------------------------------
(* write_string: the sequence of writes it issues, then their concatenation *)

\* faulty variant: the two hex digits in the wrong order
ctrl_escape_swapped(c) ==
    CASE c = 8  -> << <<cBackslash>>, <<98>> >>
      [] c = 12 -> << <<cBackslash>>, <<102>> >>
      [] c = 10 -> << <<cBackslash>>, <<110>> >>
      [] c = 13 -> << <<cBackslash>>, <<114>> >>
      [] c = 9  -> << <<cBackslash>>, <<116>> >>
      [] OTHER  -> << sUnicodeEsc,
                      <<num_to_hex(c % 16)>>,
                      <<num_to_hex((c \div 16) % 16)>> >>

ctrl_escape(c) ==
    CASE c = 8  -> << <<cBackslash>>, <<98>> >>
      [] c = 12 -> << <<cBackslash>>, <<102>> >>
      [] c = 10 -> << <<cBackslash>>, <<110>> >>
      [] c = 13 -> << <<cBackslash>>, <<114>> >>
      [] c = 9  -> << <<cBackslash>>, <<116>> >>
      [] OTHER  -> << sUnicodeEsc,
                      <<num_to_hex((c \div 16) % 16)>>,
                      <<num_to_hex(c % 16)>> >>

\* one write handed to the sink: a run of input bytes that need no escaping
\* (sout_.write(start, ps - start), start being the 1-based position `at`),
\* or a piece of an escape sequence or a quote
RunWrite(s, start, ps) == [run |-> TRUE, at |-> start, bytes |-> SubSeq(s, start, ps - 1)]
PieceWrite(bytes) == [run |-> FALSE, at |-> 0, bytes |-> bytes]
Pieces(ws) == [k \in 1..Len(ws) |-> PieceWrite(ws[k])]

\* faulty variant: byte 127 is not treated as a control byte
RECURSIVE write_string_loop_no127(_, _, _, _)
write_string_loop_no127(s, ps, start, writes) ==
    IF ps = Len(s) + 1
    THEN IF start # ps THEN Append(writes, RunWrite(s, start, ps)) ELSE writes
    ELSE LET c == s[ps]
         IN  IF c = cQuote \/ c = cBackslash
             THEN write_string_loop_no127(s, ps + 1, ps + 1,
                      writes \o << RunWrite(s, start, ps), PieceWrite(<<cBackslash>>),
                                   PieceWrite(<<c>>) >>)
             ELSE IF c <= 31
             THEN write_string_loop_no127(s, ps + 1, ps + 1,
                      writes \o << RunWrite(s, start, ps) >> \o Pieces(ctrl_escape(c)))
             ELSE write_string_loop_no127(s, ps + 1, start, writes)

\* faulty variant: every ordinary byte is written on its own
RECURSIVE write_string_loop_bytewise(_, _, _, _)
write_string_loop_bytewise(s, ps, start, writes) ==
    IF ps = Len(s) + 1
    THEN IF start # ps THEN Append(writes, RunWrite(s, start, ps)) ELSE writes
    ELSE LET c == s[ps]
         IN  IF c = cQuote \/ c = cBackslash
             THEN write_string_loop_bytewise(s, ps + 1, ps + 1,
                      writes \o << RunWrite(s, start, ps), PieceWrite(<<cBackslash>>),
                                   PieceWrite(<<c>>) >>)
             ELSE IF c <= 31 \/ c = 127
             THEN write_string_loop_bytewise(s, ps + 1, ps + 1,
                      writes \o << RunWrite(s, start, ps) >> \o Pieces(ctrl_escape(c)))
             ELSE write_string_loop_bytewise(s, ps + 1, ps + 1,
                      writes \o << RunWrite(s, ps, ps + 1) >>)

\* the for loop: ps and start are 1-based positions, last is Len(s) + 1
RECURSIVE write_string_loop(_, _, _, _)
write_string_loop(s, ps, start, writes) ==
    IF ps = Len(s) + 1
    THEN IF start # ps THEN Append(writes, RunWrite(s, start, ps)) ELSE writes
    ELSE LET c == s[ps]
         IN  IF c = cQuote \/ c = cBackslash
             THEN write_string_loop(s, ps + 1, ps + 1,
                      writes \o << RunWrite(s, start, ps), PieceWrite(<<cBackslash>>),
                                   PieceWrite(<<c>>) >>)
             ELSE IF c <= 31 \/ c = 127
             THEN write_string_loop(s, ps + 1, ps + 1,
                      writes \o << RunWrite(s, start, ps) >> \o Pieces(ctrl_escape(c)))
             ELSE write_string_loop(s, ps + 1, start, writes)

write_string_writes(s) ==
    << PieceWrite(<<cQuote>>) >> \o write_string_loop(s, 1, 1, <<>>)
        \o << PieceWrite(<<cQuote>>) >>

WrittenBytes(ws) == Flatten([k \in 1..Len(ws) |-> ws[k].bytes])

write_string(s) == WrittenBytes(write_string_writes(s))

-----------------------------------------------------------------------------
(* The encoder's operations, as functions of the writer w = the mutable      *)
(* fields and the sink; indent_ is fixed at construction.                    *)

\* issued collects the bytes the call hands to the stream; thrown is set when
\* a write throws, and the rest of the call is then skipped
Writer ==
    [sout_ |-> sout_, level_ |-> level_, sep_status_ |-> sep_status_,
     sink |-> sink, issued |-> <<>>, thrown |-> FALSE]

\* one insertion into the stream.  A stream that has failed accepts nothing;
\* a stream with room for fewer bytes takes those and fails.  A failure only
\* sets the stream's state, unless the stream was set up to throw on failure:
\* then the exception leaves the operation at this write.
Put(w, bytes) ==
    IF w.thrown THEN w
    ELSE IF w.sink.failed
    THEN [w EXCEPT !.issued = @ \o bytes, !.thrown = w.sink.throws]
    ELSE IF w.sink.room < 0
    THEN [w EXCEPT !.issued = @ \o bytes, !.sout_ = @ \o bytes]
    ELSE IF Len(bytes) <= w.sink.room
    THEN [w EXCEPT !.issued = @ \o bytes, !.sout_ = @ \o bytes,
                   !.sink.room = @ - Len(bytes)]
    ELSE [w EXCEPT !.issued = @ \o bytes,
                   !.sout_ = @ \o SubSeq(bytes, 1, w.sink.room),
                   !.sink.room = 0, !.sink.failed = TRUE,
                   !.thrown = w.sink.throws]

\* a sequence of insertions, in order
RECURSIVE PutWrites(_, _)
PutWrites(w, ws) ==
    IF ws = <<>> THEN w ELSE PutWrites(Put(w, Head(ws).bytes), Tail(ws))

\* faulty variant: the status is assigned only while the stream is good
SetStatus_ifgood(w, st) ==
    IF w.thrown \/ w.sink.failed THEN w ELSE [w EXCEPT !.sep_status_ = st]

\* assignments to the fields: reached only if no write before them threw
SetStatus(w, st) == IF w.thrown THEN w ELSE [w EXCEPT !.sep_status_ = st]
AddLevel(w, d) == IF w.thrown THEN w ELSE [w EXCEPT !.level_ = @ + d]

\* faulty variant: one space per level, whatever the indent width
indent_nomul(w) ==
    IF indent_ # 0 /\ w.sep_status_ # "none"
    THEN Put(Put(w, <<10>>), setw_empty(w.level_))
    ELSE w

indent(w) ==
    IF indent_ # 0 /\ w.sep_status_ # "none"
    THEN Put(Put(w, <<10>>), setw_empty(w.level_ * indent_))
    ELSE w

\* faulty variant: a comma whenever the status is not none
value_sep_eager(w) ==
    indent(IF w.sep_status_ # "none" THEN Put(w, <<cValueSep>>) ELSE w)

value_sep(w) ==
    indent(IF w.sep_status_ = "next" THEN Put(w, <<cValueSep>>) ELSE w)

\* faulty variant: the level is not incremented
array_start_nolevel(w) ==
    SetStatus(Put(value_sep(w), <<cArrStart>>), "first")

array_start(w) ==
    AddLevel(SetStatus(Put(value_sep(w), <<cArrStart>>), "first"), 1)

\* faulty variant: the indentation is written before the level is decremented
array_end_late(w) ==
    AddLevel(SetStatus(Put(indent(w), <<cArrEnd>>), "next"), -1)

\* faulty variant: the full separator prefix instead of the indentation alone
array_end_sep(w) ==
    SetStatus(Put(value_sep(AddLevel(w, -1)), <<cArrEnd>>), "next")

\* faulty variant: an end call with no open container is ignored
array_end_checked(w) ==
    IF w.level_ <= 0 THEN w
    ELSE SetStatus(Put(indent(AddLevel(w, -1)), <<cArrEnd>>), "next")

array_end(w) ==
    SetStatus(Put(indent(AddLevel(w, -1)), <<cArrEnd>>), "next")

\* faulty variant: the level is incremented before the prefix is written
object_start_early(w) ==
    SetStatus(Put(value_sep(AddLevel(w, 1)), <<cObjStart>>), "first")

object_start(w) ==
    AddLevel(SetStatus(Put(value_sep(w), <<cObjStart>>), "first"), 1)

\* faulty variant: the status is left as after an opening delimiter
object_end_first(w) ==
    SetStatus(Put(indent(AddLevel(w, -1)), <<cObjEnd>>), "first")

\* faulty variant: the level is not decremented
object_end_nodec(w) ==
    SetStatus(Put(indent(w), <<cObjEnd>>), "next")

object_end(w) ==
    SetStatus(Put(indent(AddLevel(w, -1)), <<cObjEnd>>), "next")

\* faulty variant: both bytes of the separator whatever the indent width
name_widesep(w, s) ==
    SetStatus(Put(PutWrites(value_sep(w), write_string_writes(s)), sNameSep), "none")

\* faulty variant: the status after a name is that after an opening delimiter
name_first(w, s) ==
    SetStatus(Put(PutWrites(value_sep(w), write_string_writes(s)),
         SubSeq(sNameSep, 1, IF indent_ # 0 THEN 2 ELSE 1)),
              "first")

name(w, s) ==
    SetStatus(Put(PutWrites(value_sep(w), write_string_writes(s)),
         SubSeq(sNameSep, 1, IF indent_ # 0 THEN 2 ELSE 1)),
              "none")

value(w, s) ==
    SetStatus(PutWrites(value_sep(w), write_string_writes(s)), "next")

\* the template value<T>(T n), T integral
value_integral(w, T, n) ==
    SetStatus(Put(value_sep(w), integral_text(T, n)), "next")

\* its instance for T = int
value_int(w, n) == value_integral(w, "int", n)

value_bool(w, b) ==
    SetStatus(Put(value_sep(w), bool_text(b)), "next")

\* faulty variant: the status is not updated
value_null_keep(w) ==
    Put(value_sep(w), null_text)

value_null(w) ==
    SetStatus(Put(value_sep(w), null_text), "next")

-----------------------------------------------------------------------------
(* Calls and the history *)

Call(op, s, n, b) == [op |-> op, str |-> s, num |-> n, flag |-> b]

cArrayStart == Call("array_start", <<>>, 0, FALSE)
cArrayEnd == Call("array_end", <<>>, 0, FALSE)
cObjectStart == Call("object_start", <<>>, 0, FALSE)
cObjectEnd == Call("object_end", <<>>, 0, FALSE)
cName(s) == Call("name", s, 0, FALSE)
cValue(s) == Call("value", s, 0, FALSE)
cValueInt(n) == Call("value_int", <<>>, n, FALSE)
OpOfType(T) ==
    CASE T = "int" -> "value_int"
      [] T = "char" -> "value_char"
      [] T = "signed char" -> "value_schar"
      [] T = "unsigned char" -> "value_uchar"
      [] T = "bool" -> "value_tbool"
cValueIntegral(T, n) == Call(OpOfType(T), <<>>, n, FALSE)
IntegralOps == {OpOfType(T) : T \in IntegralTypes}
cValueBool(b) == Call("value_bool", <<>>, 0, b)
cValueNull == Call("value_null", <<>>, 0, FALSE)

\* the call returns, or is left by an exception, with the writer in state r;
\* the history records the call, the bytes it handed to the stream and
\* whether it threw
Commit(r, c) ==
    /\ sout_' = r.sout_
    /\ level_' = r.level_
    /\ sep_status_' = r.sep_status_
    /\ indent_' = indent_
    /\ sink' = r.sink
    /\ log' = Append(log, [call |-> c, emit |-> r.issued, threw |-> r.thrown])

Calls == [i \in 1..Len(log) |-> log[i].call]

-----------------------------------------------------------------------------
(* Construction: json_writer(sout, indent) *)

\* a stream that accepts every write
GoodSink == [room |-> -1, failed |-> FALSE, throws |-> FALSE]

\* faulty variant: the status starts as after an opening delimiter
Init_first ==
    /\ sout_ = <<>>
    /\ indent_ \in IndentArgs
    /\ level_ = 0
    /\ sep_status_ = "first"
    /\ sink = GoodSink
    /\ log = <<>>

Init ==
    /\ sout_ = <<>>
    /\ indent_ \in IndentArgs
    /\ level_ = 0
    /\ sep_status_ = "none"
    /\ sink = GoodSink
    /\ log = <<>>

-----------------------------------------------------------------------------
(* Spec: any call at any time; the encoder validates nothing *)

StrArgs == {<<97, 32, 10>>}
IntArgs == {1}

ArrayStart == Len(log) < MaxCalls /\ Commit(array_start(Writer), cArrayStart)
ArrayEnd == Len(log) < MaxCalls /\ Commit(array_end(Writer), cArrayEnd)
ObjectStart == Len(log) < MaxCalls /\ Commit(object_start(Writer), cObjectStart)
ObjectEnd == Len(log) < MaxCalls /\ Commit(object_end(Writer), cObjectEnd)
Name == Len(log) < MaxCalls /\ \E s \in StrArgs : Commit(name(Writer, s), cName(s))
Value == Len(log) < MaxCalls /\ \E s \in StrArgs : Commit(value(Writer, s), cValue(s))
ValueInt == Len(log) < MaxCalls /\ \E n \in IntArgs : Commit(value_int(Writer, n), cValueInt(n))
ValueBool == Len(log) < MaxCalls /\ \E b \in BOOLEAN : Commit(value_bool(Writer, b), cValueBool(b))
ValueNull == Len(log) < MaxCalls /\ Commit(value_null(Writer), cValueNull)

Next ==
    \/ ArrayStart
    \/ ArrayEnd
    \/ ObjectStart
    \/ ObjectEnd
    \/ Name
    \/ Value
    \/ ValueInt
    \/ ValueBool
    \/ ValueNull

Spec == Init /\ [][Next]_vars

-----------------------------------------------------------------------------
(* The caller's side: which call sequences are well formed.  A frame is an   *)
(* open container: its kind, the number of members started in it, and, for   *)
(* an object, whether a name is waiting for its value.                       *)

IsStart(c) == c.op \in {"array_start", "object_start"}
IsEnd(c) == c.op \in {"array_end", "object_end"}
IsScalar(c) == c.op \in {"value", "value_bool", "value_null"} \cup IntegralOps
IsName(c) == c.op = "name"
KindOf(c) == IF c.op \in {"array_start", "array_end"} THEN "arr" ELSE "obj"

Frame(k) == [kind |-> k, count |-> 0, pending |-> FALSE]
Top(st) == st[Len(st)]
Pop(st) == SubSeq(st, 1, Len(st) - 1)
SetTop(st, f) == [st EXCEPT ![Len(st)] = f]

\* a value (scalar or container) may start here
ValuePlace(p) ==
    /\ ~p.done
    /\ \/ p.stack = <<>>
       \/ Top(p.stack).kind = "arr"
       \/ Top(p.stack).kind = "obj" /\ Top(p.stack).pending

\* the value that starts here is a member of the innermost open container
TakeValue(st) ==
    IF st = <<>> THEN st
    ELSE IF Top(st).kind = "arr"
         THEN SetTop(st, [Top(st) EXCEPT !.count = @ + 1])
         ELSE SetTop(st, [Top(st) EXCEPT !.pending = FALSE])

Bad(p) == [p EXCEPT !.ok = FALSE]

ParseStep(p, c) ==
    IF ~p.ok THEN p
    ELSE IF IsScalar(c) THEN
        IF ValuePlace(p)
        THEN [p EXCEPT !.stack = TakeValue(@), !.done = (p.stack = <<>>)]
        ELSE Bad(p)
    ELSE IF IsStart(c) THEN
        IF ValuePlace(p)
        THEN [p EXCEPT !.stack = Append(TakeValue(@), Frame(KindOf(c)))]
        ELSE Bad(p)
    ELSE IF IsName(c) THEN
        IF p.stack # <<>> /\ Top(p.stack).kind = "obj" /\ ~Top(p.stack).pending
        THEN [p EXCEPT !.stack = SetTop(@, [Top(@) EXCEPT !.count = @ + 1,
                                                         !.pending = TRUE])]
        ELSE Bad(p)
    ELSE \* an end call
        IF p.stack # <<>> /\ Top(p.stack).kind = KindOf(c) /\ ~Top(p.stack).pending
        THEN [p EXCEPT !.stack = Pop(@), !.done = (Len(p.stack) = 1)]
        ELSE Bad(p)

RECURSIVE Parse(_, _)
Parse(cs, i) ==
    IF i = 0 THEN [ok |-> TRUE, done |-> FALSE, stack |-> <<>>]
    ELSE ParseStep(Parse(cs, i - 1), cs[i])

WellFormed(cs) == Parse(cs, Len(cs)).ok
Complete(cs) == Parse(cs, Len(cs)).ok /\ Parse(cs, Len(cs)).done
OpenBefore(cs, i) == Len(Parse(cs, i - 1).stack)
OpenAfter(cs, i) == Len(Parse(cs, i).stack)

-----------------------------------------------------------------------------
(* SpecWF: a caller that issues only well-formed call sequences *)

WFNames == {<<97>>, <<98>>}
WFStrs == {<<120>>, <<121>>}

MayCall(c) == Len(log) < MaxWFCalls /\ WellFormed(Append(Calls, c))

WFArrayStart == MayCall(cArrayStart) /\ Commit(array_start(Writer), cArrayStart)
WFArrayEnd == MayCall(cArrayEnd) /\ Commit(array_end(Writer), cArrayEnd)
WFObjectStart == MayCall(cObjectStart) /\ Commit(object_start(Writer), cObjectStart)
WFObjectEnd == MayCall(cObjectEnd) /\ Commit(object_end(Writer), cObjectEnd)
WFName == \E s \in WFNames : MayCall(cName(s)) /\ Commit(name(Writer, s), cName(s))
WFValue == \E s \in WFStrs : MayCall(cValue(s)) /\ Commit(value(Writer, s), cValue(s))
WFValueInt == \E n \in IntArgs : MayCall(cValueInt(n)) /\ Commit(value_int(Writer, n), cValueInt(n))
WFValueBool == \E b \in BOOLEAN : MayCall(cValueBool(b)) /\ Commit(value_bool(Writer, b), cValueBool(b))
WFValueNull == MayCall(cValueNull) /\ Commit(value_null(Writer), cValueNull)

NextWF ==
    \/ WFArrayStart
    \/ WFArrayEnd
    \/ WFObjectStart
    \/ WFObjectEnd
    \/ WFName
    \/ WFValue
    \/ WFValueInt
    \/ WFValueBool
    \/ WFValueNull

SpecWF == Init /\ [][NextWF]_vars

-----------------------------------------------------------------------------
(* SpecDoc: a caller that writes well-formed compact documents: the encoder  *)
(* is constructed with indent width 0                                        *)

InitDoc == Init /\ indent_ = 0

MayCallDoc(c) == Len(log) < MaxDocCalls /\ WellFormed(Append(Calls, c))

DocArrayStart == MayCallDoc(cArrayStart) /\ Commit(array_start(Writer), cArrayStart)
DocArrayEnd == MayCallDoc(cArrayEnd) /\ Commit(array_end(Writer), cArrayEnd)
DocObjectStart == MayCallDoc(cObjectStart) /\ Commit(object_start(Writer), cObjectStart)
DocObjectEnd == MayCallDoc(cObjectEnd) /\ Commit(object_end(Writer), cObjectEnd)
DocName == \E s \in WFNames : MayCallDoc(cName(s)) /\ Commit(name(Writer, s), cName(s))
DocValue == \E s \in WFStrs : MayCallDoc(cValue(s)) /\ Commit(value(Writer, s), cValue(s))
DocValueInt == \E n \in IntArgs : MayCallDoc(cValueInt(n)) /\ Commit(value_int(Writer, n), cValueInt(n))
DocValueBool == \E b \in BOOLEAN : MayCallDoc(cValueBool(b)) /\ Commit(value_bool(Writer, b), cValueBool(b))
DocValueNull == MayCallDoc(cValueNull) /\ Commit(value_null(Writer), cValueNull)

NextDoc ==
    \/ DocArrayStart
    \/ DocArrayEnd
    \/ DocObjectStart
    \/ DocObjectEnd
    \/ DocName
    \/ DocValue
    \/ DocValueInt
    \/ DocValueBool
    \/ DocValueNull

SpecDoc == InitDoc /\ [][NextDoc]_vars

-----------------------------------------------------------------------------
(* SpecObj: a caller that writes nested objects with integer members *)

ObjNames == {<<107>>, <<110>>}

MayCallObj(c) == Len(log) < MaxObjCalls /\ WellFormed(Append(Calls, c))

ObjObjectStart == MayCallObj(cObjectStart) /\ Commit(object_start(Writer), cObjectStart)
ObjObjectEnd == MayCallObj(cObjectEnd) /\ Commit(object_end(Writer), cObjectEnd)
ObjName == \E s \in ObjNames : MayCallObj(cName(s)) /\ Commit(name(Writer, s), cName(s))
ObjValueInt == \E n \in IntArgs : MayCallObj(cValueInt(n)) /\ Commit(value_int(Writer, n), cValueInt(n))

NextObj ==
    \/ ObjObjectStart
    \/ ObjObjectEnd
    \/ ObjName
    \/ ObjValueInt

SpecObj == Init /\ [][NextObj]_vars

-----------------------------------------------------------------------------
(* SpecStr: one name or string value written by a fresh encoder, the string  *)
(* drawn from every single byte, every short sequence over StrBytes, and the *)
(* documented example a TAB b quote c                                        *)

StrBytes == {0, 9, 31, 34, 92, 97, 127, 128, 255}
ExampleStr == <<97, 9, 98, 34, 99>>
StrInputs == SeqsUpTo(StrBytes, MaxStrLen) \cup {<<b>> : b \in 0..255} \cup {ExampleStr}

StrName == log = <<>> /\ \E s \in StrInputs : Commit(name(Writer, s), cName(s))
StrValue == log = <<>> /\ \E s \in StrInputs : Commit(value(Writer, s), cValue(s))

NextStr ==
    \/ StrName
    \/ StrValue

SpecStr == Init /\ [][NextStr]_vars

-----------------------------------------------------------------------------
(* SpecNum: scalar values written by a fresh encoder or inside an array, the *)
(* integral ones through the template with several argument types           *)

MaxNumCalls == 2   \* calls per behaviour, scalar call sequences

IntegralArgs ==
    {<<"int", n>> : n \in {-2147483647, -10, 0, 7, 100}}
        \cup {<<"bool", 1>>, <<"char", 65>>, <<"unsigned char", 7>>, <<"signed char", -1>>}

MayCallNum == Len(log) < MaxNumCalls

NumArrayStart == MayCallNum /\ Commit(array_start(Writer), cArrayStart)
NumValueIntegral ==
    \E a \in IntegralArgs :
        MayCallNum /\ Commit(value_integral(Writer, a[1], a[2]), cValueIntegral(a[1], a[2]))
NumValueBool == \E b \in BOOLEAN : MayCallNum /\ Commit(value_bool(Writer, b), cValueBool(b))
NumValueNull == MayCallNum /\ Commit(value_null(Writer), cValueNull)

NextNum ==
    \/ NumArrayStart
    \/ NumValueIntegral
    \/ NumValueBool
    \/ NumValueNull

SpecNum == Init /\ [][NextNum]_vars

-----------------------------------------------------------------------------
(* SpecSink: any call at any time on a stream that may stop accepting bytes. *)
(* The stream takes a number of bytes and then fails; it reports the failure *)
(* in its state only, or also by throwing from the failing insertion.        *)

MaxSinkCalls == 3
MaxSinkRoom == 2

InitSink ==
    /\ sout_ = <<>>
    /\ indent_ \in IndentArgs
    /\ level_ = 0
    /\ sep_status_ = "none"
    /\ sink \in [room : 0..MaxSinkRoom, failed : {FALSE}, throws : BOOLEAN]
    /\ log = <<>>

MayCallSink == Len(log) < MaxSinkCalls

SinkArrayStart == MayCallSink /\ Commit(array_start(Writer), cArrayStart)
SinkArrayEnd == MayCallSink /\ Commit(array_end(Writer), cArrayEnd)
SinkObjectStart == MayCallSink /\ Commit(object_start(Writer), cObjectStart)
SinkObjectEnd == MayCallSink /\ Commit(object_end(Writer), cObjectEnd)
SinkName == \E s \in StrArgs : MayCallSink /\ Commit(name(Writer, s), cName(s))
SinkValue == \E s \in StrArgs : MayCallSink /\ Commit(value(Writer, s), cValue(s))
SinkValueInt ==
    \E n \in IntArgs : MayCallSink /\ Commit(value_int(Writer, n), cValueInt(n))
SinkValueBool ==
    \E b \in BOOLEAN : MayCallSink /\ Commit(value_bool(Writer, b), cValueBool(b))
SinkValueNull == MayCallSink /\ Commit(value_null(Writer), cValueNull)

NextSink ==
    \/ SinkArrayStart
    \/ SinkArrayEnd
    \/ SinkObjectStart
    \/ SinkObjectEnd
    \/ SinkName
    \/ SinkValue
    \/ SinkValueInt
    \/ SinkValueBool
    \/ SinkValueNull

SpecSink == InitSink /\ [][NextSink]_vars

-----------------------------------------------------------------------------
(* Reference JSON text, defined from the document's structure alone *)

\* the escaped form of one byte of a string
EscByte(c) ==
    IF c = 34 \/ c = 92 THEN <<92, c>>
    ELSE IF c = 8 THEN <<92, 98>>
    ELSE IF c = 12 THEN <<92, 102>>
    ELSE IF c = 10 THEN <<92, 110>>
    ELSE IF c = 13 THEN <<92, 114>>
    ELSE IF c = 9 THEN <<92, 116>>
    ELSE IF c <= 31 \/ c = 127
         THEN <<92, 117, 48, 48, sHex[(c \div 16) + 1], sHex[(c % 16) + 1]>>
    ELSE <<c>>

RefQuote(s) == <<34>> \o Flatten([i \in 1..Len(s) |-> EscByte(s[i])]) \o <<34>>

\* a member that is not the first of its container follows a comma
RefComma(p, c) ==
    IF /\ p.stack # <<>>
       /\ Top(p.stack).count > 0
       /\ \/ IsName(c)
          \/ (IsScalar(c) \/ IsStart(c)) /\ Top(p.stack).kind = "arr"
    THEN <<44>> ELSE <<>>

RefText(c) ==
    CASE c.op = "array_start" -> <<91>>
      [] c.op = "array_end" -> <<93>>
      [] c.op = "object_start" -> <<123>>
      [] c.op = "object_end" -> <<125>>
      [] c.op = "name" -> RefQuote(c.str) \o <<58>>
      [] c.op = "value" -> RefQuote(c.str)
      [] c.op \in IntegralOps -> int_text(c.num)
      [] c.op = "value_bool" -> bool_text(c.flag)
      [] c.op = "value_null" -> null_text

RECURSIVE RefCompact(_, _)
RefCompact(cs, i) ==
    IF i = 0 THEN <<>>
    ELSE RefCompact(cs, i - 1) \o RefComma(Parse(cs, i - 1), cs[i]) \o RefText(cs[i])

\* a standard JSON string decoder applied to a quoted literal
HexVal(d) ==
    IF d >= 48 /\ d <= 57 THEN d - 48
    ELSE IF d >= 97 /\ d <= 102 THEN d - 87
    ELSE IF d >= 65 /\ d <= 70 THEN d - 55
    ELSE -1

Failed == [ok |-> FALSE, bytes |-> <<>>]
Decoded(b, rest) == IF rest.ok THEN [ok |-> TRUE, bytes |-> <<b>> \o rest.bytes] ELSE Failed

RECURSIVE DecodeFrom(_, _)
DecodeFrom(t, j) ==
    IF j > Len(t) THEN [ok |-> TRUE, bytes |-> <<>>]
    ELSE IF t[j] = 34 \/ t[j] <= 31 THEN Failed
    ELSE IF t[j] # 92 THEN Decoded(t[j], DecodeFrom(t, j + 1))
    ELSE IF j + 1 > Len(t) THEN Failed
    ELSE LET e == t[j + 1]
         IN  IF e = 34 \/ e = 92 \/ e = 47 THEN Decoded(e, DecodeFrom(t, j + 2))
             ELSE IF e = 98 THEN Decoded(8, DecodeFrom(t, j + 2))
             ELSE IF e = 102 THEN Decoded(12, DecodeFrom(t, j + 2))
             ELSE IF e = 110 THEN Decoded(10, DecodeFrom(t, j + 2))
             ELSE IF e = 114 THEN Decoded(13, DecodeFrom(t, j + 2))
             ELSE IF e = 116 THEN Decoded(9, DecodeFrom(t, j + 2))
             ELSE IF e = 117 /\ j + 5 <= Len(t)
                     /\ \A k \in 2..5 : HexVal(t[j + k]) >= 0
                  THEN LET v == 4096 * HexVal(t[j + 2]) + 256 * HexVal(t[j + 3])
                                + 16 * HexVal(t[j + 4]) + HexVal(t[j + 5])
                       IN  IF v < 128 THEN Decoded(v, DecodeFrom(t, j + 6)) ELSE Failed
             ELSE Failed

Decode(lit) ==
    IF Len(lit) >= 2 /\ lit[1] = 34 /\ lit[Len(lit)] = 34
    THEN DecodeFrom(SubSeq(lit, 2, Len(lit) - 1), 1)
    ELSE Failed

\* the quoted literal among the bytes a name or string value call wrote to a
\* fresh encoder: a name call appends the name separator after it
NameSepLen == IF indent_ # 0 THEN 2 ELSE 1
LiteralOf(e) ==
    IF e.call.op = "name" THEN SubSeq(e.emit, 1, Len(e.emit) - NameSepLen) ELSE e.emit

-----------------------------------------------------------------------------
(* Documented scenarios *)

Scenario1 == <<cObjectStart, cName(<<97>>), cValueInt(1), cName(<<98>>),
               cValueBool(TRUE), cObjectEnd>>
Expected1 == <<123, 34, 97, 34, 58, 49, 44, 34, 98, 34, 58, 116, 114, 117, 101, 125>>

Scenario2 == <<cArrayStart, cValue(<<120>>), cValue(<<121>>), cArrayEnd>>
Expected2 == <<91, 34, 120, 34, 44, 34, 121, 34, 93>>

Expected3 == <<34, 97, 92, 116, 98, 92, 34, 99, 34>>

Scenario4 == <<cObjectStart, cName(<<107>>), cObjectStart, cName(<<110>>),
               cValueInt(1), cObjectEnd, cObjectEnd>>

-----------------------------------------------------------------------------
(* C1: with indent width 0, the bytes written for a well-formed call         *)
(* sequence are the reference compact serialization: delimiters, members in  *)
(* call order separated by one ',', each name followed by ':', nothing else; *)
(* scenario 1 yields {"a":1,"b":true} and scenario 2 yields ["x","y"].       *)
C1_CompactOutput ==
    indent_ = 0 =>
        /\ sout_ = RefCompact(Calls, Len(Calls))
        /\ Calls = Scenario1 => sout_ = Expected1
        /\ Calls = Scenario2 => sout_ = Expected2

C1_Witness == indent_ = 0 /\ Calls = Scenario1 /\ sout_ = Expected1

-----------------------------------------------------------------------------
(* C7: decoding the literal written for a string s with a standard JSON      *)
(* string decoder yields exactly s.                                          *)
C7_EscapeRoundTrip ==
    \A i \in 1..Len(log) :
        log[i].call.op \in {"name", "value"} =>
            Decode(LiteralOf(log[i])) = [ok |-> TRUE, bytes |-> log[i].call.str]

C7_Witness ==
    /\ Len(log) = 1
    /\ log[1].call.op = "value"
    /\ log[1].call.str = <<34, 92, 31>>
    /\ Decode(log[1].emit).bytes = <<34, 92, 31>>

-----------------------------------------------------------------------------
(* C8: the literal is a quote, each byte's escaped form in order, a quote;   *)
(* so it has no raw byte <= 31 or 127 and no unescaped quote inside; the     *)
(* bytes a TAB b quote c yield "a\tb\"c".                                    *)
RECURSIVE BackslashesBefore(_, _)
BackslashesBefore(t, j) ==
    IF j > 1 /\ t[j - 1] = 92 THEN 1 + BackslashesBefore(t, j - 1) ELSE 0

C8_EscapeForm ==
    \A i \in 1..Len(log) :
        log[i].call.op \in {"name", "value"} =>
            LET lit == LiteralOf(log[i])
                inner == SubSeq(lit, 2, Len(lit) - 1)
            IN  /\ lit = RefQuote(log[i].call.str)
                /\ \A j \in 1..Len(inner) :
                      /\ inner[j] > 31
                      /\ inner[j] # 127
                      /\ inner[j] = 34 => BackslashesBefore(inner, j) % 2 = 1
                /\ log[i].call.str = ExampleStr => lit = Expected3

C8_Witness ==
    /\ Len(log) = 1
    /\ log[1].call = cValue(ExampleStr)
    /\ log[1].emit = Expected3

-----------------------------------------------------------------------------
(* C2: with indent width N > 0, every newline written is followed by exactly *)
(* N * d spaces and then a token, d being the number of containers open at   *)
(* that point (for a closing delimiter: after its container is closed).      *)
DepthAt(i) ==
    IF IsEnd(log[i].call) THEN OpenAfter(Calls, i) ELSE OpenBefore(Calls, i)

C2_LineIndent ==
    indent_ > 0 =>
        \A i \in 1..Len(log) :
            LET e == log[i].emit
                n == indent_ * DepthAt(i)
            IN  \A j \in 1..Len(e) :
                    e[j] = 10 =>
                        /\ j + n + 1 <= Len(e)
                        /\ \A k \in 1..n : e[j + k] = 32
                        /\ e[j + n + 1] \notin {10, 32}

C2_Witness ==
    /\ indent_ = 2
    /\ Len(log) = 4
    /\ Calls = <<cArrayStart, cArrayStart, cValueInt(1), cArrayEnd>>
    /\ log[3].emit = <<10, 32, 32, 32, 32, 49>>
    /\ log[4].emit = <<10, 32, 32, 93>>

-----------------------------------------------------------------------------
(* C3: for a well-formed call sequence and any indent width, a call writes   *)
(* one comma, before anything else, exactly when it begins a member that is  *)
(* not the first of its container; so no comma stands after an opening       *)
(* delimiter, after a name separator or before a closing delimiter.          *)
NotBlank(b) == b \notin {10, 32}

C3_SiblingCommas ==
    /\ \A i \in 1..Len(log) :
          LET e == log[i].emit
          IN  IF RefComma(Parse(Calls, i - 1), log[i].call) # <<>>
              THEN Count(e, 44) = 1 /\ e[1] = 44 /\ Len(e) > 1
              ELSE Count(e, 44) = 0
    /\ LET t == SelectSeq(sout_, NotBlank)
       IN  \A j \in 1..Len(t) :
               t[j] = 44 =>
                   /\ j > 1 /\ j < Len(t)
                   /\ t[j - 1] \notin {91, 123, 58, 44}
                   /\ t[j + 1] \notin {93, 125, 44}

C3_Witness ==
    /\ indent_ = 2
    /\ Calls = <<cArrayStart, cObjectStart, cObjectEnd, cValueNull, cArrayEnd>>
    /\ Count(sout_, 44) = 1

-----------------------------------------------------------------------------
(* C4: a container closed right after it was opened is written as exactly    *)
(* its two delimiters, nothing between them, for every indent width and at   *)
(* every nesting level.                                                      *)
C4_EmptyContainer ==
    \A i \in 2..Len(log) :
        /\ (log[i - 1].call = cObjectStart /\ log[i].call = cObjectEnd)
              => log[i].emit = <<125>>
        /\ (log[i - 1].call = cArrayStart /\ log[i].call = cArrayEnd)
              => log[i].emit = <<93>>

-----------------------------------------------------------------------------
(* C5: with indent width 2 the nested object {"k":{"n":1}} is written as     *)
(* three lines, the first { and the second two spaces then "k": {.           *)
RECURSIVE Lines(_)
Lines(s) ==
    IF \A j \in 1..Len(s) : s[j] # 10 THEN <<s>>
    ELSE LET j == CHOOSE k \in 1..Len(s) :
                      s[k] = 10 /\ \A m \in 1..(k - 1) : s[m] # 10
         IN  <<SubSeq(s, 1, j - 1)>> \o Lines(SubSeq(s, j + 1, Len(s)))

Line1 == <<123>>
Line2 == <<32, 32, 34, 107, 34, 58, 32, 123>>
Line3 == <<32, 32, 32, 32, 34, 110, 34, 58, 32, 49>>
Line4 == <<32, 32, 125>>
Line5 == <<125>>

C5_ThreeLines ==
    (indent_ = 2 /\ Calls = Scenario4) =>
        /\ Len(Lines(sout_)) = 3
        /\ Lines(sout_)[1] = Line1
        /\ Lines(sout_)[2] = Line2

\* amended: the output has five lines: the two above, then the member of the
\* inner object at four spaces, the inner closing brace at two spaces and the
\* outer closing brace at none
C5_FiveLines ==
    (indent_ = 2 /\ Calls = Scenario4) =>
        Lines(sout_) = <<Line1, Line2, Line3, Line4, Line5>>

C5_Witness ==
    /\ indent_ = 2
    /\ Calls = Scenario4
    /\ Len(Lines(sout_)) = 5
    /\ level_ = 0

-----------------------------------------------------------------------------
(* C6: with indent width 0 the encoder writes no newline and no space other  *)
(* than the spaces inside the caller's strings; the name separator is ':'    *)
(* when the indent width is 0 and ': ' when it is positive.                  *)
RECURSIVE SpacesInStrings(_)
SpacesInStrings(i) ==
    IF i = 0 THEN 0 ELSE SpacesInStrings(i - 1) + Count(log[i].call.str, 32)

C6_NoWhitespace ==
    /\ indent_ = 0 =>
          /\ Count(sout_, 10) = 0
          /\ Count(sout_, 32) = SpacesInStrings(Len(log))
    /\ \A i \in 1..Len(log) :
          log[i].call.op = "name" =>
              LET e == log[i].emit
                  n == Len(e)
              IN  IF indent_ = 0
                  THEN e[n] = 58 /\ e[n - 1] = 34
                  ELSE e[n] = 32 /\ e[n - 1] = 58 /\ e[n - 2] = 34

C6_Witness ==
    /\ indent_ = 0
    /\ Calls = <<cObjectStart, cName(<<97, 32, 10>>), cValue(<<97, 32, 10>>), cObjectEnd>>
    /\ Count(sout_, 32) = 2

-----------------------------------------------------------------------------
(* C9: the nesting level is >= 0 after any sequence of operations.           *)
C9_LevelNonNegative == level_ >= 0

\* amended: the nesting level is >= 0 after any sequence of operations in
\* which no array_end or object_end is called while no container is open
Starts(i) == Cardinality({j \in 1..i : IsStart(log[j].call)})
Ends(i) == Cardinality({j \in 1..i : IsEnd(log[j].call)})
EndsMatched == \A i \in 1..Len(log) : Ends(i) <= Starts(i)

C9_LevelNonNegativeIfMatched == EndsMatched => level_ >= 0

C9_Witness ==
    /\ EndsMatched
    /\ Calls = <<cArrayStart, cObjectStart, cArrayEnd, cObjectEnd>>
    /\ level_ = 0

-----------------------------------------------------------------------------
(* C10: the separator status after an operation depends on the operation     *)
(* alone: none initially and after name, first after array_start and         *)
(* object_start, next after array_end, object_end and every value.           *)
StatusAfter(op) ==
    IF op = "name" THEN "none"
    ELSE IF op \in {"array_start", "object_start"} THEN "first"
    ELSE "next"

C10_StatusByOperation ==
    sep_status_ = IF log = <<>> THEN "none" ELSE StatusAfter(log[Len(log)].call.op)

C10_Witness ==
    /\ indent_ = 2
    /\ Calls = <<cName(<<97, 32, 10>>), cArrayEnd, cValueNull>>
    /\ level_ = -1
    /\ sep_status_ = "next"

-----------------------------------------------------------------------------
(* The token a call writes after its prefix *)
TokenText(c) ==
    IF c.op = "name" THEN RefQuote(c.str) \o SubSeq(<<58, 32>>, 1, NameSepLen)
    ELSE RefText(c)

-----------------------------------------------------------------------------
(* C11: for every indent width, the value, array_start or object_start that  *)
(* immediately follows a name call writes its token and nothing before it:   *)
(* no comma, no newline, no indentation.                                     *)
C11_AfterName ==
    \A i \in 2..Len(log) :
        (log[i - 1].call.op = "name" /\ (IsScalar(log[i].call) \/ IsStart(log[i].call)))
            => log[i].emit = TokenText(log[i].call)

C11_Witness ==
    /\ indent_ = 2
    /\ Calls = <<cObjectStart, cName(<<97, 32, 10>>), cArrayStart>>
    /\ log[3].emit = <<91>>

-----------------------------------------------------------------------------
(* C14: the nesting level is the number of start calls minus the number of   *)
(* end calls so far (so name and value calls leave it unchanged and it is 0  *)
(* exactly when starts and ends balance), and the indent width never changes.*)
C14_LevelCountsContainers ==
    /\ [](/\ level_ = Starts(Len(log)) - Ends(Len(log))
          /\ (level_ = 0) <=> (Starts(Len(log)) = Ends(Len(log))))
    /\ [][indent_' = indent_]_vars

C14_Witness ==
    /\ Calls = <<cArrayStart, cName(<<97, 32, 10>>), cValueNull, cArrayEnd>>
    /\ level_ = 0
    /\ Starts(4) = 1 /\ Ends(4) = 1

-----------------------------------------------------------------------------
(* C16: for any call sequence, a call writes a comma only if it is a start,  *)
(* name or value call and the call before it was a value or an end; so,      *)
(* blanks aside, the output has no two adjacent commas, no comma after an    *)
(* opening delimiter or a name separator and none before a closing one.      *)
CommaDue(i) ==
    /\ i > 1
    /\ ~IsEnd(log[i].call)
    /\ (IsScalar(log[i - 1].call) \/ IsEnd(log[i - 1].call))

C16_CommaPlacement ==
    /\ \A i \in 1..Len(log) :
          Count(log[i].emit, 44) = IF CommaDue(i) THEN 1 ELSE 0
    /\ LET t == SelectSeq(sout_, NotBlank)
       IN  \A j \in 1..Len(t) :
               t[j] = 44 =>
                   /\ j > 1 => t[j - 1] \notin {91, 123, 58, 44}
                   /\ j < Len(t) => t[j + 1] \notin {93, 125, 44}

C16_Witness ==
    /\ indent_ = 1
    /\ Calls = <<cArrayEnd, cName(<<97, 32, 10>>), cValueNull, cObjectStart>>
    /\ Count(sout_, 44) = 2

-----------------------------------------------------------------------------
(* C17: the first operation on a fresh encoder, whatever it is and whatever  *)
(* the indent width, writes its token with no comma, newline or space before *)
(* it.                                                                       *)
C17_FirstToken ==
    Len(log) >= 1 =>
        /\ log[1].emit = TokenText(log[1].call)
        /\ sout_[1] \notin {44, 10, 32}

C17_Witness ==
    /\ indent_ = 2
    /\ Calls = <<cArrayEnd>>
    /\ sout_ = <<93>>
    /\ level_ = -1

-----------------------------------------------------------------------------
(* C15: a start call writes its prefix and delimiter at the enclosing level  *)
(* and then increments the level; an end call decrements first.  So with     *)
(* indent width N > 0 the closing delimiter of a non-empty container is on a *)
(* line of its own, indented N less than the container's members and as much *)
(* as the line that holds the matching opening delimiter.                    *)
RECURSIVE NewlinesUpTo(_)
NewlinesUpTo(i) ==
    IF i = 0 THEN 0 ELSE NewlinesUpTo(i - 1) + Count(log[i].emit, 10)

\* the output line on which the token of call i stands
LineOf(i) == Lines(sout_)[1 + NewlinesUpTo(i)]

RECURSIVE LeadingSpaces(_)
LeadingSpaces(l) ==
    IF l # <<>> /\ Head(l) = 32 THEN 1 + LeadingSpaces(Tail(l)) ELSE 0

MatchingStart(i) ==
    CHOOSE j \in 1..(i - 1) :
        /\ IsStart(log[j].call)
        /\ OpenBefore(Calls, j) = OpenAfter(Calls, i)
        /\ \A k \in (j + 1)..(i - 1) :
              ~(IsStart(log[k].call) /\ OpenBefore(Calls, k) = OpenAfter(Calls, i))

MembersOf(j, i) ==
    {k \in (j + 1)..(i - 1) :
        /\ OpenBefore(Calls, k) = OpenBefore(Calls, j) + 1
        /\ \/ IsName(log[k].call)
           \/ KindOf(log[j].call) = "arr" /\ ~IsEnd(log[k].call)}

C15_ClosingLine ==
    indent_ > 0 =>
        \A i \in 1..Len(log) :
            (IsEnd(log[i].call) /\ ~IsStart(log[i - 1].call)) =>
                LET e == log[i].emit
                    j == MatchingStart(i)
                IN  /\ e[1] = 10
                    /\ \A k \in 2..(Len(e) - 1) : e[k] = 32
                    /\ e[Len(e)] = (IF KindOf(log[i].call) = "arr" THEN 93 ELSE 125)
                    /\ LeadingSpaces(LineOf(j)) = LeadingSpaces(LineOf(i))
                    /\ MembersOf(j, i) # {}
                    /\ \A k \in MembersOf(j, i) :
                          LeadingSpaces(LineOf(k)) = LeadingSpaces(LineOf(i)) + indent_

C15_Witness ==
    /\ indent_ = 2
    /\ Calls = <<cArrayStart, cObjectStart, cName(<<97>>), cValueInt(1), cObjectEnd>>
    /\ log[2].emit = <<10, 32, 32, 123>>
    /\ log[5].emit = <<10, 32, 32, 125>>

-----------------------------------------------------------------------------
(* C19: write_string hands every maximal run of bytes that need no escaping  *)
(* to the sink in one write, the writes keep the input order, the run start  *)
(* stays within first..last, and an input with k special bytes takes at most *)
(* k + 1 run writes.                                                         *)
IsSpecial(c) == c = 34 \/ c = 92 \/ c <= 31 \/ c = 127
Ordinary(c) == ~IsSpecial(c)

C19_RunBatching ==
    \A i \in 1..Len(log) :
        log[i].call.op \in {"name", "value"} =>
            LET s == log[i].call.str
                ws == write_string_writes(s)
                runs == SelectSeq(ws, LAMBDA x : x.run)
                k == Cardinality({p \in 1..Len(s) : IsSpecial(s[p])})
            IN  /\ WrittenBytes(ws) = RefQuote(s)
                /\ WrittenBytes(runs) = SelectSeq(s, Ordinary)
                /\ Len(runs) <= k + 1
                /\ \A r \in 1..Len(runs) :
                      LET from == runs[r].at
                          to == from + Len(runs[r].bytes)
                      IN  /\ 1 <= from /\ to <= Len(s) + 1
                          /\ runs[r].bytes = SubSeq(s, from, to - 1)
                          /\ \A p \in from..(to - 1) : Ordinary(s[p])
                          /\ from = 1 \/ IsSpecial(s[from - 1])
                          /\ to = Len(s) + 1 \/ IsSpecial(s[to])

C19_Witness ==
    /\ Len(log) = 1
    /\ log[1].call = cValue(<<97, 97, 34>>)
    /\ Len(write_string_writes(<<97, 97, 34>>)) = 5
    /\ write_string_writes(<<97, 97, 34>>)[2] = RunWrite(<<97, 97, 34>>, 1, 3)

-----------------------------------------------------------------------------
(* The separator-and-indent prefix due before call i, from the history: a    *)
(* comma after a value or an end (never before an end), then, when pretty    *)
(* printing and not right after a name or at the very start, a newline and   *)
(* the indentation of the level at which the token is written.               *)
PrevStatus(i) == IF i = 1 THEN "none" ELSE StatusAfter(log[i - 1].call.op)

TokenLevel(i) ==
    Starts(i - 1) - Ends(i - 1) - (IF IsEnd(log[i].call) THEN 1 ELSE 0)

PrefixDue(i) ==
    (IF PrevStatus(i) = "next" /\ ~IsEnd(log[i].call) THEN <<44>> ELSE <<>>)
        \o (IF indent_ # 0 /\ PrevStatus(i) # "none"
            THEN <<10>> \o [k \in 1..(indent_ * TokenLevel(i)) |-> 32]
            ELSE <<>>)

-----------------------------------------------------------------------------
(* C12: after the shared prefix value_null writes null, value_bool writes    *)
(* true or false, and value(n) writes, for every integral argument type, the *)
(* decimal text of n: no leading zeros, a minus sign only when n is          *)
(* negative; each leaves the separator status after-value.                   *)
RECURSIVE DigitsValue(_)
DigitsValue(t) ==
    IF t = <<>> THEN 0 ELSE 10 * DigitsValue(SubSeq(t, 1, Len(t) - 1)) + (t[Len(t)] - 48)

IsDecimalOf(t, n) ==
    LET d == IF n < 0 THEN Tail(t) ELSE t
    IN  /\ t # <<>>
        /\ (n < 0) <=> (t[1] = 45)
        /\ d # <<>>
        /\ \A k \in 1..Len(d) : d[k] >= 48 /\ d[k] <= 57
        /\ Len(d) > 1 => d[1] # 48
        /\ DigitsValue(d) = (IF n < 0 THEN 0 - n ELSE n)

TextAfterPrefix(i) ==
    SubSeq(log[i].emit, Len(PrefixDue(i)) + 1, Len(log[i].emit))

C12_ScalarText ==
    /\ \A i \in 1..Len(log) :
          LET c == log[i].call
          IN  (c.op \in {"value_null", "value_bool"} \cup IntegralOps) =>
                  /\ SubSeq(log[i].emit, 1, Len(PrefixDue(i))) = PrefixDue(i)
                  /\ c.op = "value_null" => TextAfterPrefix(i) = <<110, 117, 108, 108>>
                  /\ c.op = "value_bool" =>
                        TextAfterPrefix(i) = (IF c.flag THEN <<116, 114, 117, 101>>
                                              ELSE <<102, 97, 108, 115, 101>>)
                  /\ c.op \in IntegralOps => IsDecimalOf(TextAfterPrefix(i), c.num)
    /\ (log # <<>> /\ log[Len(log)].call.op # "array_start") => sep_status_ = "next"

-----------------------------------------------------------------------------
(* C13: the encoder rejects nothing: every operation can be called in every  *)
(* state, writes its prefix and its token, and makes its usual state update, *)
(* also an end call with no open container, a value where a name is due or a *)
(* name inside an array.                                                     *)
\* called in the current state, the operation returns having written at least
\* its token and left one of the three statuses
Accepts(r, c) ==
    /\ Len(r.sout_) >= Len(sout_) + Len(TokenText(c))
    /\ SubSeq(r.sout_, 1, Len(sout_)) = sout_
    /\ SubSeq(r.sout_, Len(r.sout_) - Len(TokenText(c)) + 1, Len(r.sout_)) = TokenText(c)
    /\ r.sep_status_ = StatusAfter(c.op)
    /\ r.level_ - level_ = (IF IsStart(c) THEN 1 ELSE IF IsEnd(c) THEN -1 ELSE 0)

C13_NeverRejects ==
    /\ Accepts(array_start(Writer), cArrayStart)
    /\ Accepts(array_end(Writer), cArrayEnd)
    /\ Accepts(object_start(Writer), cObjectStart)
    /\ Accepts(object_end(Writer), cObjectEnd)
    /\ \A s \in StrArgs : Accepts(name(Writer, s), cName(s)) /\ Accepts(value(Writer, s), cValue(s))
    /\ \A n \in IntArgs : Accepts(value_int(Writer, n), cValueInt(n))
    /\ \A b \in BOOLEAN : Accepts(value_bool(Writer, b), cValueBool(b))
    /\ Accepts(value_null(Writer), cValueNull)
    /\ log = <<>> =>
          /\ ENABLED ArrayStart /\ ENABLED ArrayEnd
          /\ ENABLED ObjectStart /\ ENABLED ObjectEnd
          /\ ENABLED Name /\ ENABLED Value
          /\ ENABLED ValueInt /\ ENABLED ValueBool /\ ENABLED ValueNull
    /\ log # <<>> =>
          log[Len(log)].emit = PrefixDue(Len(log)) \o TokenText(log[Len(log)].call)
    /\ sout_ = Flatten([i \in 1..Len(log) |-> log[i].emit])
    /\ sep_status_ \in SepStatus

C13_Witness ==
    /\ indent_ = 1
    /\ Calls = <<cArrayEnd, cObjectStart, cValueNull, cArrayEnd>>
    /\ ~WellFormed(Calls)
    /\ level_ = -1
    /\ log[1].emit = <<93>>
    /\ log[4].emit = <<10, 93>>

-----------------------------------------------------------------------------
(* The same calls on a stream that accepts every write *)

\* the encoder after construction on a good stream
Fresh ==
    [sout_ |-> <<>>, level_ |-> 0, sep_status_ |-> "none",
     sink |-> GoodSink, issued |-> <<>>, thrown |-> FALSE]

\* the call c made on the encoder in state w
Apply(w, c) ==
    LET v == [w EXCEPT !.issued = <<>>, !.thrown = FALSE]
    IN  CASE c.op = "array_start" -> array_start(v)
          [] c.op = "array_end" -> array_end(v)
          [] c.op = "object_start" -> object_start(v)
          [] c.op = "object_end" -> object_end(v)
          [] c.op = "name" -> name(v, c.str)
          [] c.op = "value" -> value(v, c.str)
          [] c.op = "value_bool" -> value_bool(v, c.flag)
          [] c.op = "value_null" -> value_null(v)
          [] OTHER -> value_int(v, c.num)

\* the encoder after the first i calls of the history, on a good stream
RECURSIVE Replay(_)
Replay(i) == IF i = 0 THEN Fresh ELSE Apply(Replay(i - 1), log[i].call)

\* C18: sink failures do not influence the state machine: after every call
\* the level and the separator status are the ones the same calls give on a
\* stream that accepts everything, and the call has issued all of its writes
C18_SinkIndependence ==
    LET r == Replay(Len(log))
    IN  /\ level_ = r.level_
        /\ sep_status_ = r.sep_status_
        /\ log # <<>> => log[Len(log)].emit = r.issued

\* a call left by an exception has made the assignments that precede its
\* failing write (the decrement of an end call) and none of those after it
ThrownCall ==
    (log' # log /\ log'[Len(log')].threw) =>
        /\ sep_status_' = sep_status_
        /\ level_' = IF IsEnd(log'[Len(log')].call) THEN level_ - 1 ELSE level_

\* C18, amended: on a stream that reports failure in its state only, the level
\* and the separator status after every call are the ones the same calls give
\* on a stream that accepts everything, and every call issues all of its
\* writes; on a stream that throws, the failing call ends at its failing write
C18_SilentSinkIndependence ==
    /\ [](~sink.throws => C18_SinkIndependence)
    /\ [][ThrownCall]_vars

\* a stream that does not throw has failed, and calls were made after that
C18_Witness ==
    /\ ~sink.throws /\ sink.failed
    /\ Len(log) >= 2
    /\ log[Len(log)].call = cArrayStart
    /\ Len(sout_) + Len(log[Len(log)].emit)
           < Len(Flatten([i \in 1..Len(log) |-> log[i].emit]))

=============================================================================
